---- MODULE Spec2Model ----
(***************************************************************************)
(* Crypto-PAn prefix-preserving address scrambling (cryptoPAn-rs).         *)
(*                                                                         *)
(* Two implementations live in the repository:                             *)
(*   - Scrambler<E: Encrypter> (src/src/scramble.rs), over byte arrays;    *)
(*   - CryptoPAn (src/src/lib.rs), over u128 integers.                     *)
(*                                                                         *)
(* Bytes keep their width of 8 bits (u8 arithmetic is taken % 256).  The   *)
(* source fixes the block at 16 bytes, the key at 32 bytes and an IPv4     *)
(* address at 4 bytes; the model keeps these proportions (key = 2 blocks,  *)
(* IPv4 = the leading V4Bytes of a block) and scales the number of bytes   *)
(* by the bounds NBytes and V4Bytes, so that 128 reads NBits, 32 reads     *)
(* V4Bits and 96 reads NBits - V4Bits.                                     *)
(***************************************************************************)
EXTENDS Integers, Sequences, FiniteSets, TLC

\* width of a u8
BYTE_BITS == 8
\* bytes of a block ([u8; 16] in the source)
NBytes == 2
\* bytes of an IPv4 address (4 in the source)
V4Bytes == 1
\* calls counted since the remembered call (the count saturates)
MaxSince == 2

ByteMod == 2 ^ BYTE_BITS
Byte == 0 .. (ByteMod - 1)
\* 128 in the source
NBits == BYTE_BITS * NBytes
\* 32 in the source
V4Bits == BYTE_BITS * V4Bytes
\* 32 in the source: the key is two blocks
KEY_LEN == 2 * NBytes
\* 2^128 in the source: the modulus of u128 arithmetic
WordMod == 2 ^ NBits

(***************************************************************************)
(* u8 arithmetic                                                           *)
(***************************************************************************)
RECURSIVE BitOp(_, _, _, _)
BitOp(op, a, b, w) ==
    IF w = 0 THEN 0
    ELSE LET x == a % 2
             y == b % 2
             r == CASE op = "and" -> x * y
                    [] op = "or"  -> IF x + y > 0 THEN 1 ELSE 0
                    [] op = "xor" -> (x + y) % 2
         IN  r + 2 * BitOp(op, a \div 2, b \div 2, w - 1)

AndTab == [a \in Byte |-> [b \in Byte |-> BitOp("and", a, b, BYTE_BITS)]]
OrTab  == [a \in Byte |-> [b \in Byte |-> BitOp("or", a, b, BYTE_BITS)]]
XorTab == [a \in Byte |-> [b \in Byte |-> BitOp("xor", a, b, BYTE_BITS)]]

And8(a, b) == AndTab[a][b]
Or8(a, b)  == OrTab[a][b]
Not8(a)    == (ByteMod - 1) - a
\* x << k and x >> k on a u8 (k < 8): bits shifted out are lost
Shl8(x, k) == (x * (2 ^ k)) % ByteMod
Shr8(x, k) == x \div (2 ^ k)

\* the closure |m, b| !m & b of scramble
NotAndTab == [m \in Byte |-> [b \in Byte |-> And8(Not8(m), b)]]

\* zip_with(a, b, f): element-wise merge of two arrays of the same length;
\* the closure f is given as its table
zip_with(a, b, f) == [j \in 1 .. Len(a) |-> f[a[j]][b[j]]]

(***************************************************************************)
(* Encrypter: a deterministic keyed block cipher on one block.  The trait  *)
(* leaves the cipher open (AES-128 in lib.rs); the model instantiates it   *)
(* with a small keyed permutation of the block space: a chain from the     *)
(* last byte to the first through the u8 permutation x(2x+1), so that      *)
(* every bit of the block and of the key reaches the first output byte.    *)
(***************************************************************************)
SBox(x) == (x * (2 * x + 1)) % ByteMod

RECURSIVE EncChain(_, _, _)
EncChain(key, input, j) ==
    IF j > Len(input) THEN 99
    ELSE SBox((EncChain(key, input, j + 1) + input[j] + key[j]) % ByteMod)

from_key(key) == key

encrypt(encrypter, input) ==
    [j \in 1 .. Len(input) |-> EncChain(encrypter, input, j)]

(***************************************************************************)
(* Scrambler (scramble.rs)                                                 *)
(***************************************************************************)
NoObj == [kind |-> "None", encrypter |-> <<>>, padding |-> <<>>, padding_int |-> 0]

\* Scrambler::with_encrypter: the padding block is the encrypted pad key
with_encrypter_raw(encrypter, padding) ==
    [kind |-> "Scrambler", encrypter |-> encrypter,
     padding |-> padding, padding_int |-> 0]

with_encrypter(encrypter, padding) ==
    [kind |-> "Scrambler", encrypter |-> encrypter,
     padding |-> encrypt(encrypter, padding), padding_int |-> 0]

\* Scrambler::new: key[..16] keys the cipher, key[16..] is the pad key
Scrambler_new(key) ==
    LET enc_key   == SubSeq(key, 1, NBytes)
        pad_key   == SubSeq(key, NBytes + 1, Len(key))
        encrypter == from_key(enc_key)
    IN  with_encrypter(encrypter, pad_key)

\* padded = (bytes & !mask) | (self.padding & mask)
Padded_off_by_one(mask, bytes, padding) ==
    LET wide == [j \in 1 .. Len(mask) |->
                    IF mask[j] # 0 /\ \A h \in 1 .. (j - 1) : mask[h] = 0
                    THEN Shr8(mask[j], 1) ELSE mask[j]]
        b == zip_with(wide, bytes, NotAndTab)
        p == zip_with(wide, padding, AndTab)
    IN  zip_with(b, p, OrTab)

Padded_unmasked(mask, bytes, padding) ==
    LET p == zip_with(mask, padding, AndTab)
    IN  zip_with(bytes, p, OrTab)

Padded(mask, bytes, padding) ==
    LET b == zip_with(mask, bytes, NotAndTab)
        p == zip_with(mask, padding, AndTab)
    IN  zip_with(b, p, OrTab)

\* result[i / 8] = (result[i / 8] << 1) | (encrypted[0] >> 7)
ResultStep(result, i, encrypted) ==
    [result EXCEPT ![(i \div BYTE_BITS) + 1] =
        Or8(Shl8(@, 1), Shr8(encrypted[1], BYTE_BITS - 1))]

\* mask[i / 8] >>= 1
MaskStep(mask, i) ==
    [mask EXCEPT ![(i \div BYTE_BITS) + 1] = Shr8(@, 1)]

NoAddr == [v |-> 0, octets |-> <<>>]

\* the locals of one call, per thread; enc counts the cipher invocations of
\* the call, ovl records that an iteration ran while another thread was
\* inside its own loop
Idle ==
    [pc |-> "idle", op |-> "none", addr |-> NoAddr, bytes |-> <<>>, n_bits |-> 0,
     i |-> 0, mask |-> <<>>, result |-> <<>>, out |-> <<>>, ret |-> NoAddr,
     enc |-> 0, ovl |-> FALSE]

\* entry of scramble: the n_bits check, then fresh mask and result
ScrambleEnter_strict(l, op, addr, bytes, n_bits) ==
    IF n_bits >= NBits
    THEN [Idle EXCEPT !.pc = "panic", !.op = op, !.addr = addr,
                      !.bytes = bytes, !.n_bits = n_bits]
    ELSE [Idle EXCEPT !.pc = "loop", !.op = op, !.addr = addr, !.bytes = bytes,
                      !.n_bits = n_bits,
                      !.mask = [j \in 1 .. NBytes |-> ByteMod - 1],
                      !.result = [j \in 1 .. NBytes |-> 0]]

ScrambleEnter_stale(l, op, addr, bytes, n_bits) ==
    IF n_bits > NBits
    THEN [Idle EXCEPT !.pc = "panic", !.op = op, !.addr = addr,
                      !.bytes = bytes, !.n_bits = n_bits]
    ELSE [Idle EXCEPT !.pc = "loop", !.op = op, !.addr = addr, !.bytes = bytes,
                      !.n_bits = n_bits,
                      !.mask = [j \in 1 .. NBytes |-> ByteMod - 1],
                      !.result = IF Len(l.result) = NBytes THEN l.result
                                 ELSE [j \in 1 .. NBytes |-> 0]]

ScrambleEnter(l, op, addr, bytes, n_bits) ==
    IF n_bits > NBits
    THEN [Idle EXCEPT !.pc = "panic", !.op = op, !.addr = addr,
                      !.bytes = bytes, !.n_bits = n_bits]
    ELSE [Idle EXCEPT !.pc = "loop", !.op = op, !.addr = addr, !.bytes = bytes,
                      !.n_bits = n_bits,
                      !.mask = [j \in 1 .. NBytes |-> ByteMod - 1],
                      !.result = [j \in 1 .. NBytes |-> 0]]

\* one iteration of `for i in 0..n_bits`
LoopBody(s, l) ==
    LET padded    == Padded(l.mask, l.bytes, s.padding)
        encrypted == encrypt(s.encrypter, padded)
    IN  [l EXCEPT !.result = ResultStep(l.result, l.i, encrypted),
                  !.mask   = MaskStep(l.mask, l.i),
                  !.i      = l.i + 1,
                  !.enc    = l.enc + 1]

\* zip_with(bytes, &result, |b, r| b ^ r), and the adapters' conversions
ScrambleExit(l) ==
    LET out == zip_with(l.bytes, l.result, XorTab)
    IN  [l EXCEPT !.pc = "done", !.out = out,
                  !.ret = CASE l.op = "ipv4" -> [v |-> 4, octets |-> SubSeq(out, 1, V4Bytes)]
                            [] l.op = "ipv6" -> [v |-> 6, octets |-> out]
                            [] OTHER -> NoAddr]

RECURSIVE RunLoop(_, _)
\* (CHOOSE over a singleton: the locals are computed in each iteration,
\* before the next one starts)
RunLoop(s, l) ==
    IF l.i < l.n_bits
    THEN CHOOSE r \in {RunLoop(s, m) : m \in {LoopBody(s, l)}} : TRUE
    ELSE l

\* Scrambler::scramble run alone from entry to return
scramble(s, bytes, n_bits) ==
    LET l == ScrambleEnter(Idle, "scramble", NoAddr, bytes, n_bits)
    IN  IF l.pc = "panic" THEN l ELSE ScrambleExit(RunLoop(s, l))

\* (variant: the address in the last bytes of the zeroed buffer)
Ipv4Buffer_low(addr) ==
    [j \in 1 .. NBytes |->
        IF j > NBytes - V4Bytes THEN addr.octets[j - (NBytes - V4Bytes)] ELSE 0]

\* scramble_ipv4: the address sits in bytes[..4] of a zeroed buffer
Ipv4Buffer(addr) ==
    [j \in 1 .. NBytes |-> IF j <= V4Bytes THEN addr.octets[j] ELSE 0]

\* scramble_ipv4 run alone: scramble(&bytes, 32), then anonymized[..4]
scramble_ipv4(s, addr) ==
    ScrambleExit(RunLoop(s, ScrambleEnter(Idle, "ipv4", addr, Ipv4Buffer(addr), V4Bits))).ret

\* scramble_ipv6 run alone: scramble(&addr.octets(), 128)
scramble_ipv6(s, addr) ==
    ScrambleExit(RunLoop(s, ScrambleEnter(Idle, "ipv6", addr, addr.octets, NBits))).ret

(***************************************************************************)
(* CryptoPAn (lib.rs), on u128 integers                                    *)
(***************************************************************************)
\* u128 arithmetic: a bitwise operation on words acts byte by byte
WordBytes(a) == [j \in 1 .. NBytes |-> (a \div (ByteMod ^ (NBytes - j))) % ByteMod]

RECURSIVE WordOfBytes(_, _)
WordOfBytes(bs, n) ==
    IF n = 0 THEN 0 ELSE WordOfBytes(bs, n - 1) * ByteMod + bs[n]

AndW(a, b) == WordOfBytes(zip_with(WordBytes(a), WordBytes(b), AndTab), NBytes)
OrW(a, b)  == WordOfBytes(zip_with(WordBytes(a), WordBytes(b), OrTab), NBytes)
XorW(a, b) == WordOfBytes(zip_with(WordBytes(a), WordBytes(b), XorTab), NBytes)
NotW(a)    == (WordMod - 1) - a
ShlW(a, k) == (a * (2 ^ k)) % WordMod
ShrW(a, k) == a \div (2 ^ k)

\* byte_array.iter().fold(0u128, |acc, &byte| (acc << 8) | u128::from(byte))
RECURSIVE to_int(_)
to_int(byte_array) ==
    IF Len(byte_array) = 0 THEN 0
    ELSE LET n == Len(byte_array)
         IN  OrW(ShlW(to_int(SubSeq(byte_array, 1, n - 1)), BYTE_BITS), byte_array[n])

\* for i in 0..len { byte_array.insert(0, ((int_value >> (i * 8)) & 0xff) as u8) }
to_array(int_value, int_value_len) ==
    [j \in 1 .. int_value_len |->
        ShrW(int_value, (int_value_len - j) * BYTE_BITS) % ByteMod]

\* CryptoPAn::new: Ok(object) or Err(InvalidKeyLength(len)); enc counts the
\* cipher operations performed
CryptoPAn_new_truncating(key) ==
    IF Len(key) < KEY_LEN
    THEN [res |-> "InvalidKeyLength", len |-> Len(key), enc |-> 0, obj |-> NoObj]
    ELSE LET cipher  == SubSeq(key, 1, NBytes)
             padding == encrypt(cipher, SubSeq(key, NBytes + 1, KEY_LEN))
         IN  [res |-> "Ok", len |-> Len(key), enc |-> 1,
              obj |-> [kind |-> "CryptoPAn", encrypter |-> cipher,
                       padding |-> <<>>, padding_int |-> to_int(padding)]]

CryptoPAn_new(key) ==
    IF Len(key) # KEY_LEN
    THEN [res |-> "InvalidKeyLength", len |-> Len(key), enc |-> 0, obj |-> NoObj]
    ELSE LET cipher  == SubSeq(key, 1, NBytes)
             padding == encrypt(cipher, SubSeq(key, NBytes + 1, Len(key)))
         IN  [res |-> "Ok", len |-> Len(key), enc |-> 1,
              obj |-> [kind |-> "CryptoPAn", encrypter |-> cipher,
                       padding |-> <<>>, padding_int |-> to_int(padding)]]

\* the flip bit of one position of anonymize_bin's loop
FlipAt(s, ext_addr, pos) ==
    LET mask         == ShrW(WordMod - 1, pos)
        padded_addr  == OrW(AndW(s.padding_int, mask), AndW(ext_addr, NotW(mask)))
        padded_bytes == to_array(padded_addr, NBytes)
        encrypted    == encrypt(s.encrypter, padded_bytes)
    IN  Shr8(encrypted[1], BYTE_BITS - 1)

\* for pos in 0..pos_max { flip_array.push(encrypted[0] >> 7) }, then
\* flip_array.into_iter().fold(0u128, |acc, x| (acc << 1) | x)
RECURSIVE FoldFlips(_, _, _, _, _)
FoldFlips(s, ext_addr, pos, pos_max, acc) ==
    IF pos = pos_max THEN acc
    ELSE CHOOSE r \in {FoldFlips(s, ext_addr, pos + 1, pos_max, v) :
                        v \in {OrW(ShlW(acc, 1), FlipAt(s, ext_addr, pos))}} : TRUE

anonymize_bin_low(s, addr, version) ==
    LET pos_max == IF version = 4 THEN V4Bits ELSE NBits
    IN  CHOOSE r \in {XorW(addr, result) :
                       result \in {FoldFlips(s, addr, 0, pos_max, 0)}} : TRUE

anonymize_bin(s, addr, version) ==
    LET pos_max  == IF version = 4 THEN V4Bits ELSE NBits
        ext_addr == IF version = 4 THEN ShlW(addr, NBits - V4Bits) ELSE addr
    IN  CHOOSE r \in {XorW(addr, result) :
                       result \in {FoldFlips(s, ext_addr, 0, pos_max, 0)}} : TRUE

\* Ipv4Addr::from((addr & 0xFFFFFFFF) as u32) / Ipv6Addr::from(addr)
format_ip(addr, version) ==
    IF version = 4
    THEN [v |-> 4, octets |-> to_array(AndW(addr, 2 ^ V4Bits - 1), V4Bytes)]
    ELSE [v |-> 6, octets |-> to_array(addr, NBytes)]

\* addr.parse(): the text is modelled by the address it denotes, NoAddr
\* standing for a text that is no address
ParseOk(text) == text.v \in {4, 6}

\* CryptoPAn::anonymize
anonymize(s, text) ==
    IF ~ ParseOk(text)
    THEN [Idle EXCEPT !.pc = "error", !.op = "anonymize", !.addr = text]
    ELSE LET version    == text.v
             addr       == to_int(text.octets)
             anonymized == anonymize_bin(s, addr, version)
         IN  [Idle EXCEPT !.pc = "done", !.op = "anonymize", !.addr = text,
                          !.enc = IF version = 4 THEN V4Bits ELSE NBits,
                          !.ret = format_ip(anonymized, version)]

(***************************************************************************)
(* The callers' inputs                                                     *)
(***************************************************************************)
\* integers of w bits: zero, all ones and every single bit, so that for
\* every k two of them agree on exactly their leading k bits
SampleInts(w) == {0, 2 ^ w - 1} \cup {2 ^ p : p \in 0 .. (w - 1)}

Buffers == {to_array(x, NBytes) : x \in SampleInts(NBits)}
V4Addrs == {[v |-> 4, octets |-> to_array(x, V4Bytes)] : x \in SampleInts(V4Bits)}
V6Addrs == {[v |-> 6, octets |-> b] : b \in Buffers}
Texts   == V4Addrs \cup V6Addrs \cup {NoAddr}
\* n_bits is a usize: every legal value and one past the limit
NBitsArgs == 0 .. (NBits + 1)

KeyOf(seed, len) == [j \in 1 .. len |-> (seed * 37 + j * 101 + j * j * seed) % ByteMod]
ValidKeys == {KeyOf(seed, KEY_LEN) : seed \in {1, 2}}
Keys == ValidKeys \cup {KeyOf(1, len) : len \in {0, NBytes, KEY_LEN - 1, KEY_LEN + 1}}

\* the smaller input sets of the history and of the two-thread specifications
FewBuffers == {to_array(x, NBytes) : x \in {0, 2 ^ NBits - 1, 2 ^ (NBits - 1) + 1}}
FewNBits   == {0, BYTE_BITS - 3, BYTE_BITS, NBits - 3, NBits}
FewV4Addrs == {[v |-> 4, octets |-> to_array(x, V4Bytes)] : x \in {0, 2 ^ V4Bits - 1}}
FewV6Addrs == {[v |-> 6, octets |-> b] : b \in FewBuffers}

Threads == {1, 2}

(***************************************************************************)
(* State                                                                   *)
(***************************************************************************)
VARIABLES
    obj,    \* the constructed object: a Scrambler, a CryptoPAn, or NoObj
    ctor,   \* what the last constructor call was given and returned
    th,     \* per thread: the call in progress or last returned
    pin,    \* a returned call remembered from earlier in the run
    since   \* calls on other inputs made since pin was taken

vars == <<obj, ctor, th, pin, since>>

NoCtor == [res |-> "none", len |-> 0, enc |-> 0, key |-> <<>>]

Init ==
    /\ obj = NoObj
    /\ ctor = NoCtor
    /\ th = [t \in Threads |-> Idle]
    /\ pin = Idle
    /\ since = 0

\* Scrambler::new takes a &[u8; 32]: the type admits no other length
NewScrambler(key) ==
    /\ obj = NoObj
    /\ Len(key) = KEY_LEN
    /\ obj' = Scrambler_new(key)
    /\ ctor' = [res |-> "Ok", len |-> Len(key), enc |-> 1, key |-> key]
    /\ UNCHANGED <<th, pin, since>>

\* CryptoPAn::new takes a slice of any length
NewCryptoPAn(key) ==
    /\ obj = NoObj
    /\ LET r == CryptoPAn_new(key)
       IN  /\ obj' = r.obj
           /\ ctor' = [res |-> r.res, len |-> r.len, enc |-> r.enc, key |-> key]
    /\ UNCHANGED <<th, pin, since>>

\* a thread may call once its previous call has returned (or panicked)
CanCall(t) == th[t].pc # "loop"

SameInput(k, l) ==
    /\ k.op = l.op
    /\ k.addr = l.addr
    /\ k.bytes = l.bytes
    /\ k.n_bits = l.n_bits

\* thread t enters a call with the locals l
Call(t, l) ==
    /\ th' = [th EXCEPT ![t] = l]
    /\ since' = IF pin.pc = "done" /\ ~ SameInput(pin, l) /\ since < MaxSince
                THEN since + 1 ELSE since
    /\ UNCHANGED <<obj, ctor, pin>>

Scramble(t, bytes, n_bits) ==
    /\ obj.kind = "Scrambler"
    /\ CanCall(t)
    /\ Call(t, ScrambleEnter(th[t], "scramble", NoAddr, bytes, n_bits))

ScrambleIpv4(t, addr) ==
    /\ obj.kind = "Scrambler"
    /\ CanCall(t)
    /\ Call(t, ScrambleEnter(th[t], "ipv4", addr, Ipv4Buffer(addr), V4Bits))

ScrambleIpv6(t, addr) ==
    /\ obj.kind = "Scrambler"
    /\ CanCall(t)
    /\ Call(t, ScrambleEnter(th[t], "ipv6", addr, addr.octets, NBits))

\* scramble_ip: match on the version, then the adapter of that version
ScrambleIp(t, addr) ==
    IF addr.v = 4 THEN ScrambleIpv4(t, addr) ELSE ScrambleIpv6(t, addr)

\* the loop of scramble, one iteration at a time: mask and result are locals
\* of the call, the Scrambler is only read
StepThreads_shared_mask(s, ths, t) ==
    LET l == LoopBody(s, ths[t])
    IN  [u \in DOMAIN ths |->
            IF u = t THEN l
            ELSE IF ths[u].pc = "loop" THEN [ths[u] EXCEPT !.mask = l.mask]
            ELSE ths[u]]

StepThreads(s, ths, t) == [ths EXCEPT ![t] = LoopBody(s, ths[t])]

ScrambleStep(t) ==
    /\ th[t].pc = "loop"
    /\ th[t].i < th[t].n_bits
    /\ th' = [StepThreads(obj, th, t) EXCEPT ![t].ovl =
                 @ \/ \E u \in Threads \ {t} : th[u].pc = "loop" /\ th[u].i > 0]
    /\ UNCHANGED <<obj, ctor, pin, since>>

ScrambleReturn(t) ==
    /\ th[t].pc = "loop"
    /\ th[t].i = th[t].n_bits
    /\ th' = [th EXCEPT ![t] = ScrambleExit(@)]
    /\ UNCHANGED <<obj, ctor, pin, since>>

\* CryptoPAn::anonymize takes &mut self: one caller at a time
Anonymize(text) ==
    /\ obj.kind = "CryptoPAn"
    /\ Call(1, anonymize(obj, text))

\* remember the call that has just returned
Pin(t) ==
    /\ th[t].pc = "done"
    /\ pin # th[t]
    /\ pin' = th[t]
    /\ since' = 0
    /\ UNCHANGED <<obj, ctor, th>>

\* one caller, any sequence of calls
Next ==
    \/ \E key \in ValidKeys : NewScrambler(key)
    \/ \E key \in Keys : NewCryptoPAn(key)
    \/ \E bytes \in Buffers, n_bits \in NBitsArgs : Scramble(1, bytes, n_bits)
    \/ \E addr \in V4Addrs : ScrambleIpv4(1, addr)
    \/ \E addr \in V6Addrs : ScrambleIpv6(1, addr)
    \/ \E addr \in V4Addrs \cup V6Addrs : ScrambleIp(1, addr)
    \/ ScrambleStep(1)
    \/ ScrambleReturn(1)
    \/ \E text \in Texts : Anonymize(text)

Spec == Init /\ [][Next]_vars

\* one caller, with one earlier call remembered
NextHist ==
    \/ \E key \in ValidKeys : NewScrambler(key)
    \/ \E key \in ValidKeys : NewCryptoPAn(key)
    \/ \E bytes \in FewBuffers, n_bits \in FewNBits : Scramble(1, bytes, n_bits)
    \/ \E addr \in FewV4Addrs : ScrambleIpv4(1, addr)
    \/ \E addr \in FewV6Addrs : ScrambleIpv6(1, addr)
    \/ ScrambleStep(1)
    \/ ScrambleReturn(1)
    \/ \E text \in FewV4Addrs \cup FewV6Addrs : Anonymize(text)
    \/ Pin(1)

SpecHist == Init /\ [][NextHist]_vars

\* two threads sharing one Scrambler
NextConc ==
    \/ \E key \in ValidKeys : NewScrambler(key)
    \/ \E t \in Threads :
          \/ \E bytes \in FewBuffers, n_bits \in FewNBits : Scramble(t, bytes, n_bits)
          \/ ScrambleStep(t)
          \/ ScrambleReturn(t)

SpecConc == Init /\ [][NextConc]_vars

(***************************************************************************)
(* The reference construction, bit by bit (position 0 is the most          *)
(* significant bit of byte 0), as the specification states it              *)
(***************************************************************************)
Bit(bytes, p) ==
    (bytes[(p \div BYTE_BITS) + 1] \div (2 ^ (BYTE_BITS - 1 - (p % BYTE_BITS)))) % 2

RECURSIVE ByteOfBits(_, _, _)
ByteOfBits(bits, first, n) ==
    IF n = 0 THEN 0 ELSE 2 * ByteOfBits(bits, first, n - 1) + bits[first + n - 1]

\* the bytes whose bits are bits[0], bits[1], ...
BytesOfBits(bits, len) ==
    [j \in 1 .. len |-> ByteOfBits(bits, (j - 1) * BYTE_BITS, BYTE_BITS)]

AgreePrefix(a, b, k) == \A p \in 0 .. (k - 1) : Bit(a, p) = Bit(b, p)

\* the padding block of a key: encrypt(key[16..32]) under key[0..16]
RefPadding(key) ==
    encrypt(from_key(SubSeq(key, 1, NBytes)), SubSeq(key, NBytes + 1, 2 * NBytes))

\* first i bits from the buffer, the remaining bits from the padding block
RefPadded(key, bytes, i) ==
    LET pad == RefPadding(key)
    IN  BytesOfBits([p \in 0 .. (NBits - 1) |->
                        IF p < i THEN Bit(bytes, p) ELSE Bit(pad, p)], NBytes)

RefFlip(key, bytes, i) ==
    Bit(encrypt(from_key(SubSeq(key, 1, NBytes)), RefPadded(key, bytes, i)), 0)

\* buffer XOR flip_mask, the flip mask being zero from position n_bits on
RefScramble(key, bytes, n_bits) ==
    BytesOfBits([p \in 0 .. (NBits - 1) |->
                    IF p < n_bits THEN (Bit(bytes, p) + RefFlip(key, bytes, p)) % 2
                    ELSE Bit(bytes, p)], NBytes)

\* a call of Scrambler::scramble has returned on thread t
Returned(t) == th[t].pc = "done" /\ th[t].op = "scramble"

(***************************************************************************)
(* Claims                                                                  *)
(***************************************************************************)

\* C1: prefix preservation.  Whenever scramble(buffer1, n_bits) has
\* returned, every buffer2 that agrees with buffer1 on its leading k bits,
\* k <= n_bits, has a scramble(buffer2, n_bits) that agrees with the
\* returned buffer on its leading k bits.
C1_PrefixPreserved ==
    Returned(1) =>
        \A buffer2 \in Buffers :
            LET out2 == scramble(obj, buffer2, th[1].n_bits).out
            IN  \A k \in 0 .. th[1].n_bits :
                    AgreePrefix(th[1].bytes, buffer2, k) =>
                        AgreePrefix(th[1].out, out2, k)

\* a call with n_bits not a multiple of 8 has returned, it changed the
\* leading bits, and another buffer shares exactly k >= 1 leading bits
C1_Witness ==
    /\ Returned(1)
    /\ th[1].n_bits % BYTE_BITS # 0
    /\ \E buffer2 \in Buffers : \E k \in 1 .. th[1].n_bits :
          /\ AgreePrefix(th[1].bytes, buffer2, k)
          /\ ~ AgreePrefix(th[1].bytes, buffer2, k + 1)
          /\ ~ AgreePrefix(th[1].bytes, th[1].out, k)

\* C2: scramble returns buffer XOR flip_mask, bit i < n_bits of the flip
\* mask being the top bit of encrypt(padded_i), for every n_bits in 0..=128,
\* multiples of 8 or not.
C2_MatchesReference ==
    Returned(1) => th[1].out = RefScramble(ctor.key, th[1].bytes, th[1].n_bits)

\* C3: the bits of the returned buffer at positions >= n_bits are the bits
\* of the input buffer.
C3_UntouchedBitsPass ==
    Returned(1) =>
        \A p \in th[1].n_bits .. (NBits - 1) : Bit(th[1].out, p) = Bit(th[1].bytes, p)

\* C4: CryptoPAn::anonymize returns the reference construction: over the 32
\* leading positions of the address placed in the most significant bits for
\* IPv4, over all 128 positions for IPv6.
C4_AnonymizeIsReference ==
    (th[1].pc = "done" /\ th[1].op = "anonymize") =>
        th[1].ret =
            IF th[1].addr.v = 4
            THEN [v |-> 4,
                  octets |-> SubSeq(RefScramble(ctor.key, Ipv4Buffer(th[1].addr), V4Bits),
                                    1, V4Bytes)]
            ELSE [v |-> 6, octets |-> RefScramble(ctor.key, th[1].addr.octets, NBits)]

\* an IPv4 address was anonymized and came back changed
C4_Witness ==
    /\ th[1].pc = "done"
    /\ th[1].op = "anonymize"
    /\ th[1].addr.v = 4
    /\ th[1].ret.v = 4
    /\ th[1].ret.octets # th[1].addr.octets

\* C5: determinism.  A call that returns on the input of a remembered
\* earlier call of the same object returns what that call returned,
\* whatever was called in between.
C5_Deterministic ==
    (pin.pc = "done" /\ th[1].pc = "done" /\ SameInput(pin, th[1])) =>
        (th[1].out = pin.out /\ th[1].ret = pin.ret)

\* the remembered input was called again after a call on another input
C5_Witness ==
    /\ pin.pc = "done"
    /\ th[1].pc = "done"
    /\ SameInput(pin, th[1])
    /\ since >= 1
    /\ pin.op = "scramble"
    /\ pin.n_bits % BYTE_BITS # 0
    /\ pin.out # pin.bytes

\* C6: the stored padding block is encrypt(key[16..32]) under key[0..16] in
\* every state after construction, whatever calls were made.
C6_PaddingIsEncryptedSeed ==
    /\ obj.kind = "Scrambler" => obj.padding = RefPadding(ctor.key)
    /\ obj.kind = "CryptoPAn" =>
          \A p \in 0 .. (NBits - 1) :
              (obj.padding_int \div (2 ^ (NBits - 1 - p))) % 2 = Bit(RefPadding(ctor.key), p)

\* calls have returned on a Scrambler whose padding block is not the seed
C6_Witness ==
    /\ obj.kind = "Scrambler"
    /\ th[1].pc = "done"
    /\ th[1].op = "ipv6"
    /\ th[1].out # th[1].bytes
    /\ obj.padding # SubSeq(ctor.key, NBytes + 1, KEY_LEN)

\* C7: a key whose length is not 32 is rejected with InvalidKeyLength
\* carrying that length, no object and no cipher operation; a key of length
\* 32 is accepted.
C7_KeyLength ==
    ctor.res # "none" =>
        /\ Len(ctor.key) # 2 * NBytes =>
              /\ ctor.res = "InvalidKeyLength"
              /\ ctor.len = Len(ctor.key)
              /\ ctor.enc = 0
              /\ obj = NoObj
        /\ Len(ctor.key) = 2 * NBytes =>
              /\ ctor.res = "Ok"
              /\ obj.kind # "None"
              /\ obj.encrypter = SubSeq(ctor.key, 1, NBytes)

\* a key one byte too long was rejected
C7_Witness ==
    /\ ctor.res = "InvalidKeyLength"
    /\ ctor.len = 2 * NBytes + 1
    /\ obj = NoObj

C8_WitnessFull ==
    /\ Returned(1)
    /\ th[1].n_bits = NBits
    /\ th[1].enc = NBits

\* C9: two scramble calls interleaved on one Scrambler each return what the
\* call returns when run alone, and the Scrambler stays as constructed.
C9_InterleavedAsAlone ==
    /\ \A t \in Threads :
          Returned(t) => th[t].out = scramble(obj, th[t].bytes, th[t].n_bits).out
    /\ obj.kind = "Scrambler" => obj = Scrambler_new(ctor.key)

\* both calls returned, on different buffers, each having run iterations
\* while the other was inside its loop
C9_Witness ==
    /\ \A t \in Threads : Returned(t) /\ th[t].ovl /\ th[t].out # th[t].bytes
    /\ th[1].bytes # th[2].bytes
    /\ th[1].n_bits % BYTE_BITS # 0

\* C10: for fixed n_bits scramble is injective: no other buffer is mapped to
\* the buffer a call returned.
C10_Injective ==
    Returned(1) =>
        \A buffer2 \in Buffers \ {th[1].bytes} :
            scramble(obj, buffer2, th[1].n_bits).out # th[1].out

\* a call with n_bits not a multiple of 8 returned a changed buffer
C10_Witness ==
    /\ Returned(1)
    /\ th[1].n_bits % BYTE_BITS # 0
    /\ th[1].n_bits > BYTE_BITS
    /\ th[1].out # th[1].bytes

\* C11: the two implementations agree.  Under one key and one cipher, the
\* address scramble_ipv4 / scramble_ipv6 returned is the address that
\* format_ip gives for anonymize_bin(a, 4) / anonymize_bin(a, 6) of a
\* CryptoPAn built from that key, and the address anonymize returned is the
\* one scramble_ipv4 / scramble_ipv6 of a Scrambler built from that key
\* returns.
C11_ImplementationsAgree ==
    /\ (th[1].pc = "done" /\ th[1].op \in {"ipv4", "ipv6"}) =>
          LET a == th[1].addr
              p == CryptoPAn_new(ctor.key).obj
          IN  th[1].ret = format_ip(anonymize_bin(p, to_int(a.octets), a.v), a.v)
    /\ (th[1].pc = "done" /\ th[1].op = "anonymize") =>
          LET a == th[1].addr
              s == Scrambler_new(ctor.key)
          IN  th[1].ret = IF a.v = 4 THEN scramble_ipv4(s, a) ELSE scramble_ipv6(s, a)

\* scramble_ipv4 of a Scrambler returned an IPv4 address that differs from
\* the one it was given
C11_Witness ==
    /\ obj.kind = "Scrambler"
    /\ th[1].pc = "done"
    /\ th[1].op = "ipv4"
    /\ th[1].ret.v = 4
    /\ th[1].ret.octets # th[1].addr.octets

\* anonymize of a CryptoPAn returned an IPv6 address that differs from the
\* one it was given
C11_WitnessV6 ==
    /\ obj.kind = "CryptoPAn"
    /\ th[1].pc = "done"
    /\ th[1].op = "anonymize"
    /\ th[1].addr.v = 6
    /\ th[1].ret.octets # th[1].addr.octets

====
